---- MODULE Spec2Model ----
(***************************************************************************)
(* Model of src/mir/evaluate.rs: the pass that evaluates compile-time      *)
(* function applications in the Mir by substitution.                       *)
(*                                                                         *)
(* Mir nodes are records tagged by "kind".  An evaluation either yields a  *)
(* node or aborts (a Rust panic, or the exhaustion of the call stack by    *)
(* unbounded inlining); an abort is the record Abort(err) and propagates   *)
(* through every enclosing evaluation in the order the code evaluates its  *)
(* children.                                                               *)
(***************************************************************************)
EXTENDS Integers, Sequences, FiniteSets, TLC

VARIABLES functions, substitutions, output, pc, err

vars == <<functions, substitutions, output, pc, err>>

----------------------------------------------------------------------------
(* Bounds *)

\* DefinitionIds are 1..MaxId
MaxId == 2

\* depth of nested inlining after which the evaluation is taken to have
\* exhausted the stack (unbounded recursion of FunctionCall::evaluate)
Fuel == 6

DefinitionIds == 1..MaxId

----------------------------------------------------------------------------
(* Atoms (mir::Atom) *)

Literal(v) == [kind |-> "Literal", value |-> v]

Variable(id) == [kind |-> "Variable", definition_id |-> id]

Lambda(args, body, ct) ==
    [kind |-> "Lambda", args |-> args, body |-> body, compile_time |-> ct]

Extern(name) == [kind |-> "Extern", name |-> name]

Effect == [kind |-> "Effect"]

(* Expressions (mir::Ast) *)

AtomAst(a) == [kind |-> "Atom", atom |-> a]

FunctionCall(f, args, ct) ==
    [kind |-> "FunctionCall", function |-> f, args |-> args, compile_time |-> ct]

Let(v, e, b) == [kind |-> "Let", variable |-> v, expr |-> e, body |-> b]

If(c, t, o) == [kind |-> "If", condition |-> c, then |-> t, otherwise |-> o]

Match(tree, branches) ==
    [kind |-> "Match", decision_tree |-> tree, branches |-> branches]

Return(e) == [kind |-> "Return", expression |-> e]

Assignment(l, r) == [kind |-> "Assignment", lhs |-> l, rhs |-> r]

MemberAccess(l, i) == [kind |-> "MemberAccess", lhs |-> l, member_index |-> i]

Tuple(fs) == [kind |-> "Tuple", fields |-> fs]

Builtin(op, operands, typ) ==
    [kind |-> "Builtin", op |-> op, operands |-> operands, typ |-> typ]

Handle(e) == [kind |-> "Handle", expression |-> e, effect |-> Effect]

(* mir::DecisionTree *)

TreeLeaf(i) == [kind |-> "Leaf", index |-> i]

TreeSwitch(a, cases, else_case) ==
    [kind |-> "Switch", int_to_switch_on |-> a, cases |-> cases,
     else_case |-> else_case]

(* The outcome of an evaluation that does not return *)

Abort(e) == [kind |-> "Abort", err |-> e]

IsAbort(r) == r.kind = "Abort"

\* no type descriptor
NoType == "none"

----------------------------------------------------------------------------
(* The builtin catalog, by the helper closure that rebuilds each kind *)

BothOps ==
    {"AddInt", "AddFloat", "SubInt", "SubFloat", "MulInt", "MulFloat",
     "DivSigned", "DivUnsigned", "DivFloat", "ModSigned", "ModUnsigned",
     "ModFloat", "LessSigned", "LessUnsigned", "LessFloat", "EqInt",
     "EqFloat", "EqChar", "EqBool", "BitwiseAnd", "BitwiseOr", "BitwiseXor"}

OneWithTypeOps ==
    {"SignExtend", "ZeroExtend", "SignedToFloat", "UnsignedToFloat",
     "FloatToSigned", "FloatToUnsigned", "FloatPromote", "FloatDemote",
     "Truncate", "Deref", "Transmute"}

OneOps == {"BitwiseNot", "StackAlloc"}

OffsetOps == {"Offset"}

BuiltinOps == BothOps \cup OneWithTypeOps \cup OneOps \cup OffsetOps

----------------------------------------------------------------------------
(* Substitutions = im::HashMap<DefinitionId, Atom> *)

EmptySubstitutions == [k \in {} |-> Effect]

\* substitutions.get(&id)
Get(subs, id) == subs[id]

Bound(subs, id) == id \in DOMAIN subs

\* substitutions.insert(id, atom) on a clone
Insert(subs, id, atom) ==
    [k \in DOMAIN subs \cup {id} |-> IF k = id THEN atom ELSE subs[k]]

\* substitutions.remove(&id) on a clone
Remove(subs, id) == [k \in DOMAIN subs \ {id} |-> subs[k]]

\* Faulty variant: the lambda's parameters stay in the substitutions
RemoveArgsNone(subs, args) == subs

RECURSIVE RemoveArgs(_, _)
\* for arg in &self.args { substitutions.remove(&arg.definition_id) }
RemoveArgs(subs, args) ==
    IF args = <<>> THEN subs
    ELSE RemoveArgs(Remove(subs, Head(args)), Tail(args))

RECURSIVE InsertParams(_, _, _)
\* for (param, arg) in lambda.args.iter().zip(args) { insert(param, arg) }
InsertParams(subs, params, args) ==
    IF params = <<>> \/ args = <<>> THEN subs
    ELSE InsertParams(Insert(subs, Head(params), Head(args)),
                      Tail(params), Tail(args))

----------------------------------------------------------------------------
(* The evaluator *)

RECURSIVE EvaluateAst(_, _, _)
RECURSIVE EvaluateAtom(_, _, _)
RECURSIVE EvaluateAtoms(_, _, _)
RECURSIVE EvaluateAsts(_, _, _)
RECURSIVE EvaluateLambda(_, _, _)
RECURSIVE EvaluateFunctionCall(_, _, _)

\* impl Evaluate<Atom> for mir::Literal
EvaluateLiteral(self, subs) == self

\* Faulty variant: a bound variable is left as it is
EvaluateVariableKept(self, subs) == self

\* impl Evaluate<Atom> for mir::Variable
EvaluateVariable(self, subs) ==
    IF Bound(subs, self.definition_id)
    THEN Get(subs, self.definition_id)
    ELSE self

\* impl Evaluate<Atom> for mir::Extern
EvaluateExtern(self, subs) == self

\* Faulty variant: an Effect atom is passed through
EvaluateEffectKept(self, subs) == self

\* impl Evaluate<Atom> for mir::Effect
EvaluateEffect(self, subs) == Abort("unreachable_effect")

\* impl Evaluate<Ast> for mir::Handle
EvaluateHandle(self, subs) == Abort("unreachable_handle")

\* impl Evaluate<Atom> for mir::Lambda
EvaluateLambda(self, subs, fuel) ==
    LET pruned == RemoveArgs(subs, self.args)
        body   == EvaluateAst(self.body, pruned, fuel)
    IN  IF IsAbort(body) THEN body
        ELSE Lambda(self.args, body, self.compile_time)

\* impl Evaluate<Atom> for Atom (dispatch_on_atom!)
EvaluateAtom(atom, subs, fuel) ==
    CASE atom.kind = "Literal"  -> EvaluateLiteral(atom, subs)
      [] atom.kind = "Variable" -> EvaluateVariable(atom, subs)
      [] atom.kind = "Lambda"   -> EvaluateLambda(atom, subs, fuel)
      [] atom.kind = "Extern"   -> EvaluateExtern(atom, subs)
      [] atom.kind = "Effect"   -> EvaluateEffect(atom, subs)

\* the Vec an fmap returns
Items(xs) == [kind |-> "Items", items |-> xs]

\* fmap(atoms, |a| a.evaluate(substitutions)): in order, the first abort wins
EvaluateAtoms(atoms, subs, fuel) ==
    IF atoms = <<>> THEN Items(<<>>)
    ELSE LET first == EvaluateAtom(Head(atoms), subs, fuel)
         IN  IF IsAbort(first) THEN first
             ELSE LET rest == EvaluateAtoms(Tail(atoms), subs, fuel)
                  IN  IF IsAbort(rest) THEN rest
                      ELSE Items(<<first>> \o rest.items)

\* fmap(asts, |a| a.evaluate(substitutions))
EvaluateAsts(asts, subs, fuel) ==
    IF asts = <<>> THEN Items(<<>>)
    ELSE LET first == EvaluateAst(Head(asts), subs, fuel)
         IN  IF IsAbort(first) THEN first
             ELSE LET rest == EvaluateAsts(Tail(asts), subs, fuel)
                  IN  IF IsAbort(rest) THEN rest
                      ELSE Items(<<first>> \o rest.items)

\* impl Evaluate<Ast> for Atom
EvaluateAtomAst(self, subs, fuel) ==
    LET atom == EvaluateAtom(self.atom, subs, fuel)
    IN  IF IsAbort(atom) THEN atom ELSE AtomAst(atom)

\* Faulty variant: only the lambda's flag is looked at
InlinesLambdaFlagOnly(function, call) ==
    /\ function.kind = "Lambda"
    /\ function.compile_time

\* Faulty variant: every call of a lambda is inlined
InlinesEveryLambda(function, call) == function.kind = "Lambda"

\* the guard of the inlining arm: Atom::Lambda(lambda) if lambda.compile_time
\* || self.compile_time
Inlines(function, call) ==
    /\ function.kind = "Lambda"
    /\ (function.compile_time \/ call.compile_time)

\* Faulty variant: no assertion: zip stops at the shorter list
ArityAssertionOff(lambda, args) == TRUE

\* assert_eq!(lambda.args.len(), args.len())
ArityAssertion(lambda, args) == Len(lambda.args) = Len(args)

\* Faulty variant: the result is evaluated again under the new substitutions rather
\* than the caller's
InlineUnderNew(lambda, args, subs, fuel) ==
    IF ~ArityAssertion(lambda, args) THEN Abort("assert_eq_arity")
    ELSE IF fuel = 0 THEN Abort("stack_overflow")
    ELSE LET new_substitutions == InsertParams(subs, lambda.args, args)
             first == EvaluateAst(lambda.body, new_substitutions, fuel - 1)
         IN  IF IsAbort(first) THEN first
             ELSE EvaluateAst(first, new_substitutions, fuel - 1)

\* the inlining arm: bind the parameters, evaluate the body under the new
\* substitutions, then evaluate the result under the caller's substitutions
Inline(lambda, args, subs, fuel) ==
    IF ~ArityAssertion(lambda, args) THEN Abort("assert_eq_arity")
    ELSE IF fuel = 0 THEN Abort("stack_overflow")
    ELSE LET new_substitutions == InsertParams(subs, lambda.args, args)
             first == EvaluateAst(lambda.body, new_substitutions, fuel - 1)
         IN  IF IsAbort(first) THEN first
             ELSE EvaluateAst(first, subs, fuel - 1)

\* impl Evaluate<Ast> for mir::FunctionCall
EvaluateFunctionCall(self, subs, fuel) ==
    LET function == EvaluateAtom(self.function, subs, fuel)
    IN  IF IsAbort(function) THEN function
        ELSE LET args == EvaluateAtoms(self.args, subs, fuel)
             IN  IF IsAbort(args) THEN args
                 ELSE IF Inlines(function, self)
                      THEN Inline(function, args.items, subs, fuel)
                      ELSE FunctionCall(function, args.items, self.compile_time)

\* impl Evaluate<Ast> for mir::Let<Ast>
EvaluateLet(self, subs, fuel) ==
    LET expr == EvaluateAst(self.expr, subs, fuel)
    IN  IF IsAbort(expr) THEN expr
        ELSE LET body == EvaluateAst(self.body, subs, fuel)
             IN  IF IsAbort(body) THEN body
                 ELSE Let(self.variable, expr, body)

\* impl Evaluate<Ast> for mir::If
EvaluateIf(self, subs, fuel) ==
    LET condition == EvaluateAtom(self.condition, subs, fuel)
    IN  IF IsAbort(condition) THEN condition
        ELSE LET then == EvaluateAst(self.then, subs, fuel)
             IN  IF IsAbort(then) THEN then
                 ELSE LET otherwise == EvaluateAst(self.otherwise, subs, fuel)
                      IN  IF IsAbort(otherwise) THEN otherwise
                          ELSE If(condition, then, otherwise)

\* fn evaluate_decision_tree: every arm is todo!()
evaluate_decision_tree(tree, subs) ==
    CASE tree.kind = "Leaf"   -> Abort("todo")
      [] tree.kind = "Let"    -> Abort("todo")
      [] tree.kind = "Switch" -> Abort("todo")

\* impl Evaluate<Ast> for mir::Match
EvaluateMatch(self, subs, fuel) ==
    LET decision_tree == evaluate_decision_tree(self.decision_tree, subs)
    IN  IF IsAbort(decision_tree) THEN decision_tree
        ELSE LET branches == EvaluateAsts(self.branches, subs, fuel)
             IN  IF IsAbort(branches) THEN branches
                 ELSE Match(decision_tree, branches.items)

\* impl Evaluate<Ast> for mir::Return
EvaluateReturn(self, subs, fuel) ==
    LET expression == EvaluateAtom(self.expression, subs, fuel)
    IN  IF IsAbort(expression) THEN expression ELSE Return(expression)

\* impl Evaluate<Ast> for mir::Assignment
EvaluateAssignment(self, subs, fuel) ==
    LET lhs == EvaluateAtom(self.lhs, subs, fuel)
    IN  IF IsAbort(lhs) THEN lhs
        ELSE LET rhs == EvaluateAtom(self.rhs, subs, fuel)
             IN  IF IsAbort(rhs) THEN rhs ELSE Assignment(lhs, rhs)

\* impl Evaluate<Ast> for mir::MemberAccess
EvaluateMemberAccess(self, subs, fuel) ==
    LET lhs == EvaluateAtom(self.lhs, subs, fuel)
    IN  IF IsAbort(lhs) THEN lhs ELSE MemberAccess(lhs, self.member_index)

\* impl Evaluate<Ast> for mir::Tuple
EvaluateTuple(self, subs, fuel) ==
    LET fields == EvaluateAtoms(self.fields, subs, fuel)
    IN  IF IsAbort(fields) THEN fields ELSE Tuple(fields.items)

\* the arms of the match in Builtin::evaluate: the helper closure each kind
\* is handed to, and the constructor it is handed with
Arm(helper, constructor) == [helper |-> helper, constructor |-> constructor]

BuiltinArm(op) ==
    CASE op = "AddInt"          -> Arm("both", "AddInt")
      [] op = "AddFloat"        -> Arm("both", "AddFloat")
      [] op = "SubInt"          -> Arm("both", "SubInt")
      [] op = "SubFloat"        -> Arm("both", "SubFloat")
      [] op = "MulInt"          -> Arm("both", "MulInt")
      [] op = "MulFloat"        -> Arm("both", "MulFloat")
      [] op = "DivSigned"       -> Arm("both", "DivSigned")
      [] op = "DivUnsigned"     -> Arm("both", "DivUnsigned")
      [] op = "DivFloat"        -> Arm("both", "DivFloat")
      [] op = "ModSigned"       -> Arm("both", "ModSigned")
      [] op = "ModUnsigned"     -> Arm("both", "ModUnsigned")
      [] op = "ModFloat"        -> Arm("both", "ModFloat")
      [] op = "LessSigned"      -> Arm("both", "LessSigned")
      [] op = "LessUnsigned"    -> Arm("both", "LessUnsigned")
      [] op = "LessFloat"       -> Arm("both", "LessFloat")
      [] op = "EqInt"           -> Arm("both", "EqInt")
      [] op = "EqFloat"         -> Arm("both", "EqFloat")
      [] op = "EqChar"          -> Arm("both", "EqChar")
      [] op = "EqBool"          -> Arm("both", "EqBool")
      [] op = "SignExtend"      -> Arm("one_with_type", "SignExtend")
      [] op = "ZeroExtend"      -> Arm("one_with_type", "ZeroExtend")
      [] op = "SignedToFloat"   -> Arm("one_with_type", "SignedToFloat")
      [] op = "UnsignedToFloat" -> Arm("one_with_type", "UnsignedToFloat")
      [] op = "FloatToSigned"   -> Arm("one_with_type", "FloatToSigned")
      [] op = "FloatToUnsigned" -> Arm("one_with_type", "FloatToUnsigned")
      [] op = "FloatPromote"    -> Arm("one_with_type", "FloatPromote")
      [] op = "FloatDemote"     -> Arm("one_with_type", "FloatDemote")
      [] op = "BitwiseAnd"      -> Arm("both", "BitwiseAnd")
      [] op = "BitwiseOr"       -> Arm("both", "BitwiseOr")
      [] op = "BitwiseXor"      -> Arm("both", "BitwiseXor")
      [] op = "BitwiseNot"      -> Arm("one", "BitwiseNot")
      [] op = "StackAlloc"      -> Arm("one", "StackAlloc")
      [] op = "Truncate"        -> Arm("one_with_type", "Truncate")
      [] op = "Deref"           -> Arm("one_with_type", "Deref")
      [] op = "Transmute"       -> Arm("one_with_type", "Transmute")
      [] op = "Offset"          -> Arm("offset", "Offset")

\* Faulty variant: the operands are rebuilt in the other order
BothSwapped(f, lhs, rhs, subs, fuel) ==
    LET l == EvaluateAtom(lhs, subs, fuel)
    IN  IF IsAbort(l) THEN l
        ELSE LET r == EvaluateAtom(rhs, subs, fuel)
             IN  IF IsAbort(r) THEN r ELSE Builtin(f, <<r, l>>, NoType)

\* let both = |f, lhs, rhs| ...: lhs, then rhs
Both(f, lhs, rhs, subs, fuel) ==
    LET l == EvaluateAtom(lhs, subs, fuel)
    IN  IF IsAbort(l) THEN l
        ELSE LET r == EvaluateAtom(rhs, subs, fuel)
             IN  IF IsAbort(r) THEN r ELSE Builtin(f, <<l, r>>, NoType)

\* let one_with_type = |f, lhs, typ| ...
OneWithType(f, lhs, typ, subs, fuel) ==
    LET l == EvaluateAtom(lhs, subs, fuel)
    IN  IF IsAbort(l) THEN l ELSE Builtin(f, <<l>>, typ)

\* let one = |f, lhs| ...
One(f, lhs, subs, fuel) ==
    LET l == EvaluateAtom(lhs, subs, fuel)
    IN  IF IsAbort(l) THEN l ELSE Builtin(f, <<l>>, NoType)

\* the arm Builtin::Offset(lhs, rhs, typ)
Offset(lhs, rhs, typ, subs, fuel) ==
    LET l == EvaluateAtom(lhs, subs, fuel)
    IN  IF IsAbort(l) THEN l
        ELSE LET r == EvaluateAtom(rhs, subs, fuel)
             IN  IF IsAbort(r) THEN r ELSE Builtin("Offset", <<l, r>>, typ)

\* impl Evaluate<Ast> for mir::Builtin
EvaluateBuiltin(self, subs, fuel) ==
    LET arm == BuiltinArm(self.op)
        f   == arm.constructor
    IN  CASE arm.helper = "both" ->
                Both(f, self.operands[1], self.operands[2], subs, fuel)
          [] arm.helper = "one_with_type" ->
                OneWithType(f, self.operands[1], self.typ, subs, fuel)
          [] arm.helper = "one" ->
                One(f, self.operands[1], subs, fuel)
          [] arm.helper = "offset" ->
                Offset(self.operands[1], self.operands[2], self.typ, subs, fuel)

\* impl Evaluate<Ast> for Ast (dispatch_on_mir!)
EvaluateAst(ast, subs, fuel) ==
    CASE ast.kind = "Atom"         -> EvaluateAtomAst(ast, subs, fuel)
      [] ast.kind = "FunctionCall" -> EvaluateFunctionCall(ast, subs, fuel)
      [] ast.kind = "Let"          -> EvaluateLet(ast, subs, fuel)
      [] ast.kind = "If"           -> EvaluateIf(ast, subs, fuel)
      [] ast.kind = "Match"        -> EvaluateMatch(ast, subs, fuel)
      [] ast.kind = "Return"       -> EvaluateReturn(ast, subs, fuel)
      [] ast.kind = "Assignment"   -> EvaluateAssignment(ast, subs, fuel)
      [] ast.kind = "MemberAccess" -> EvaluateMemberAccess(ast, subs, fuel)
      [] ast.kind = "Tuple"        -> EvaluateTuple(ast, subs, fuel)
      [] ast.kind = "Builtin"      -> EvaluateBuiltin(ast, subs, fuel)
      [] ast.kind = "Handle"       -> EvaluateHandle(ast, subs)

----------------------------------------------------------------------------
(* The inputs: programs over a bounded vocabulary *)

Types == {"I32", "F64"}

LeafAtoms ==
    {Literal(1), Extern("ext"), Effect}
        \cup {Variable(i) : i \in DefinitionIds}

\* the leaves the preceding passes leave in a program
ValueLeaves == LeafAtoms \ {Effect}

VarAtoms == {Variable(i) : i \in DefinitionIds}

ParamLists == {<<>>, <<1, 2>>} \cup {<<i>> : i \in DefinitionIds}

LeafArgs == {<<>>} \cup {<<a>> : a \in LeafAtoms}

\* nodes whose children are leaves
SimpleAsts ==
    {AtomAst(a) : a \in LeafAtoms}
        \cup {FunctionCall(f, args, ct) :
                f \in LeafAtoms, args \in LeafArgs, ct \in BOOLEAN}
        \cup {Let(v, AtomAst(a), AtomAst(b)) :
                v \in DefinitionIds, a \in LeafAtoms, b \in LeafAtoms}
        \cup {If(c, AtomAst(a), AtomAst(b)) :
                c \in {Literal(1), Variable(1), Effect},
                a \in LeafAtoms, b \in LeafAtoms}
        \cup {Return(a) : a \in LeafAtoms}
        \cup {Assignment(a, b) : a \in LeafAtoms, b \in LeafAtoms}
        \cup {MemberAccess(a, 0) : a \in LeafAtoms}
        \cup {Tuple(<<>>)}
        \cup {Tuple(<<a, b>>) : a \in LeafAtoms, b \in LeafAtoms}
        \cup {Builtin("AddInt", <<a, b>>, NoType) : a \in LeafAtoms, b \in LeafAtoms}
        \cup {Builtin("BitwiseNot", <<a>>, NoType) : a \in LeafAtoms}
        \cup {Builtin("SignExtend", <<a>>, t) : a \in LeafAtoms, t \in Types}
        \cup {Builtin("Offset", <<a, b>>, t) :
                a \in LeafAtoms, b \in {Literal(1), Effect}, t \in Types}
        \cup {Match(TreeLeaf(0), <<AtomAst(a)>>) : a \in LeafAtoms}
        \cup {Match(TreeSwitch(Variable(1), <<>>, TreeLeaf(0)), <<AtomAst(Literal(1))>>)}
        \cup {Handle(AtomAst(a)) : a \in ValueLeaves}

\* bodies of the lambdas of the programs
InnerLambdas ==
    {Lambda(<<i>>, AtomAst(Variable(j)), FALSE) :
        i \in DefinitionIds, j \in DefinitionIds}

LambdaBodies ==
    {AtomAst(a) : a \in LeafAtoms \cup InnerLambdas}
        \cup {FunctionCall(Variable(i), <<Variable(j)>>, ct) :
                i \in DefinitionIds, j \in DefinitionIds, ct \in BOOLEAN}
        \cup {FunctionCall(Variable(i), <<>>, FALSE) : i \in DefinitionIds}
        \cup {Builtin("AddInt", <<Variable(i), Literal(1)>>, NoType) :
                i \in DefinitionIds}
        \cup {Tuple(<<Variable(i), Variable(j)>>) :
                i \in DefinitionIds, j \in DefinitionIds}
        \cup {Let(i, AtomAst(Literal(1)), AtomAst(Variable(j))) :
                i \in DefinitionIds, j \in DefinitionIds}
        \cup {Match(TreeLeaf(0), <<AtomAst(Variable(1))>>)}

Lambdas ==
    {Lambda(ps, b, ct) : ps \in ParamLists, b \in LambdaBodies, ct \in BOOLEAN}

\* lambdas passed as arguments
ArgLambdas ==
    {Lambda(<<1>>, b, ct) :
        b \in {AtomAst(Variable(1)), AtomAst(Variable(2)),
               FunctionCall(Variable(1), <<Variable(1)>>, TRUE),
               FunctionCall(Variable(2), <<>>, FALSE)},
        ct \in BOOLEAN}

CallArgs ==
    LeafArgs
        \cup {<<a>> : a \in ArgLambdas}
        \cup {<<a, b>> : a \in {Literal(1)} \cup VarAtoms,
                         b \in {Literal(1)} \cup VarAtoms}

\* calls of a lambda
LambdaCalls ==
    {FunctionCall(f, args, ct) :
        f \in Lambdas, args \in CallArgs, ct \in BOOLEAN}

\* a function whose body is a call of a lambda on one of its parameters
WrappedCalls ==
    {AtomAst(Lambda(<<1>>, FunctionCall(f, <<a>>, ct), FALSE)) :
        f \in {l \in Lambdas : l.args = <<2>>}, a \in LeafAtoms, ct \in BOOLEAN}

\* a call inlined beside a sibling that mentions the parameter's id
SiblingCalls ==
    {FunctionCall(Lambda(<<p>>, AtomAst(Variable(j)), TRUE), <<a>>, FALSE) :
        p \in DefinitionIds, j \in DefinitionIds, a \in {Literal(1), Extern("ext")}}

SiblingAsts ==
    {Let(v, c, AtomAst(Variable(i))) :
        v \in DefinitionIds, c \in SiblingCalls, i \in DefinitionIds}
        \cup {If(Variable(i), c, AtomAst(Variable(j))) :
                i \in DefinitionIds, c \in SiblingCalls, j \in DefinitionIds}
        \cup {Tuple(<<Variable(i), l, Variable(j)>>) :
                i \in DefinitionIds, l \in InnerLambdas, j \in DefinitionIds}

Bodies ==
    SimpleAsts
        \cup {AtomAst(l) : l \in Lambdas}
        \cup LambdaCalls
        \cup WrappedCalls
        \cup SiblingAsts

\* bodies of the programs of two functions
PairBodies ==
    {AtomAst(Literal(1)),
     AtomAst(Effect),
     Handle(AtomAst(Literal(1))),
     Match(TreeLeaf(0), <<AtomAst(Literal(1))>>),
     FunctionCall(Lambda(<<1>>, AtomAst(Variable(1)), TRUE), <<Extern("ext")>>, FALSE),
     FunctionCall(Lambda(<<1>>, AtomAst(Variable(1)), TRUE), <<>>, FALSE),
     FunctionCall(Lambda(<<1>>, AtomAst(Variable(1)), FALSE), <<Literal(1)>>, TRUE),
     FunctionCall(Lambda(<<1>>, FunctionCall(Variable(1), <<Variable(1)>>, TRUE), TRUE),
                  <<Lambda(<<1>>, FunctionCall(Variable(1), <<Variable(1)>>, TRUE), TRUE)>>,
                  FALSE)}

\* Mir.functions: function id -> body
Programs ==
    {(1 :> b) : b \in Bodies}
        \cup {(1 :> a) @@ (2 :> b) : a \in PairBodies, b \in PairBodies}

----------------------------------------------------------------------------
(* The program driver *)

NoOutput == [id \in {} |-> AtomAst(Literal(0))]

Init ==
    /\ functions \in Programs
    /\ substitutions = EmptySubstitutions
    /\ output = NoOutput
    /\ pc = "ready"
    /\ err = "none"

\* function.evaluate(&im::HashMap::new()) for every (id, function)
EvaluatedFunctions(fs) ==
    [id \in DOMAIN fs |-> EvaluateAst(fs[id], EmptySubstitutions, Fuel)]

\* Mir::evaluate_static_calls: every function is evaluated from the empty
\* substitutions, in the map's (arbitrary) order; the first that aborts
\* ends the pass
EvaluateStaticCalls ==
    /\ pc = "ready"
    /\ LET evaluated == EvaluatedFunctions(functions)
           aborting  == {id \in DOMAIN functions : IsAbort(evaluated[id])}
       IN  \/ /\ aborting = {}
              /\ output' = evaluated
              /\ pc' = "returned"
              /\ err' = err
           \/ /\ \E id \in aborting : err' = evaluated[id].err
              /\ pc' = "aborted"
              /\ output' = output
    /\ UNCHANGED <<functions, substitutions>>

Next == EvaluateStaticCalls

Spec == Init /\ [][Next]_vars

----------------------------------------------------------------------------
(* Evaluate::evaluate on a node met inside a program: the substitutions are *)
(* those an enclosing inlining has built, so every value is an evaluated    *)
(* argument atom                                                            *)

\* atoms that evaluation returns as they are: what an argument evaluates to
EnvLambdas ==
    {Lambda(<<1>>, AtomAst(Variable(1)), TRUE),
     Lambda(<<1>>, AtomAst(Variable(2)), FALSE),
     Lambda(<<>>, AtomAst(Literal(1)), TRUE)}

EnvValues == ValueLeaves \cup EnvLambdas

Envs ==
    {EmptySubstitutions}
        \cup {(i :> v) : i \in DefinitionIds, v \in EnvValues}
        \cup {(1 :> v) @@ (2 :> w) : v \in ValueLeaves, w \in ValueLeaves}

\* every builtin kind, with the operands and the type descriptor of its shape
AllBuiltins ==
    {Builtin(op, <<a, b>>, NoType) :
        op \in BothOps, a \in LeafAtoms, b \in LeafAtoms}
        \cup {Builtin(op, <<a>>, t) :
                op \in OneWithTypeOps, a \in LeafAtoms, t \in Types}
        \cup {Builtin(op, <<a>>, NoType) : op \in OneOps, a \in LeafAtoms}
        \cup {Builtin(op, <<a, b>>, t) :
                op \in OffsetOps, a \in LeafAtoms, b \in LeafAtoms, t \in Types}

\* calls whose callee is a lambda or a variable the substitutions may bind
NodeCalls ==
    {FunctionCall(f, args, ct) :
        f \in {l \in Lambdas : Len(l.args) <= 1},
        args \in LeafArgs, ct \in BOOLEAN}
        \cup {FunctionCall(f, <<a, b>>, ct) :
                f \in {l \in Lambdas : Len(l.args) = 2 /\ l.body.kind = "Tuple"}
                        \cup VarAtoms,
                a \in {Literal(1)} \cup VarAtoms,
                b \in {Literal(1)} \cup VarAtoms, ct \in BOOLEAN}

Nodes ==
    SimpleAsts
        \cup AllBuiltins
        \cup {AtomAst(l) : l \in Lambdas}
        \cup SiblingAsts
        \cup NodeCalls

InitEvaluate ==
    /\ functions \in {(1 :> n) : n \in Nodes}
    /\ substitutions \in Envs
    /\ output = NoOutput
    /\ pc = "ready"
    /\ err = "none"

\* node.evaluate(substitutions)
Evaluate ==
    /\ pc = "ready"
    /\ \E id \in DOMAIN functions :
         LET evaluated == EvaluateAst(functions[id], substitutions, Fuel)
         IN  \/ /\ ~IsAbort(evaluated)
                /\ output' = (id :> evaluated)
                /\ pc' = "returned"
                /\ err' = err
             \/ /\ IsAbort(evaluated)
                /\ err' = evaluated.err
                /\ pc' = "aborted"
                /\ output' = output
    /\ UNCHANGED <<functions, substitutions>>

NextEvaluate == Evaluate

SpecEvaluate == InitEvaluate /\ [][NextEvaluate]_vars

----------------------------------------------------------------------------
(* Syntactic predicates on nodes, used to state the properties *)

\* a FunctionCall whose function-position atom is a Lambda, with the lambda's
\* or the call site's compile_time flag set
IsReducibleCall(ast) ==
    /\ ast.kind = "FunctionCall"
    /\ ast.function.kind = "Lambda"
    /\ (ast.function.compile_time \/ ast.compile_time)

\* the Ast nodes a search looks for
AstIs(what, ast) ==
    CASE what = "reducible" -> IsReducibleCall(ast)
      [] what = "forbidden" -> ast.kind = "Handle"
      [] what = "match"     -> ast.kind = "Match"
      [] what = "call"      -> ast.kind = "FunctionCall"

\* the atoms a search looks for
AtomIs(what, atom) ==
    CASE what = "forbidden" -> atom.kind = "Effect"
      [] OTHER -> FALSE

RECURSIVE HasNodeAst(_, _)
RECURSIVE HasNodeAtom(_, _)
RECURSIVE HasNodeTree(_, _)

\* a node that is `what` occurs in ast, at any depth
HasNodeAst(what, ast) ==
    \/ AstIs(what, ast)
    \/ CASE ast.kind = "Atom" -> HasNodeAtom(what, ast.atom)
         [] ast.kind = "FunctionCall" ->
                \/ HasNodeAtom(what, ast.function)
                \/ \E i \in DOMAIN ast.args : HasNodeAtom(what, ast.args[i])
         [] ast.kind = "Let" ->
                HasNodeAst(what, ast.expr) \/ HasNodeAst(what, ast.body)
         [] ast.kind = "If" ->
                \/ HasNodeAtom(what, ast.condition)
                \/ HasNodeAst(what, ast.then)
                \/ HasNodeAst(what, ast.otherwise)
         [] ast.kind = "Match" ->
                \/ HasNodeTree(what, ast.decision_tree)
                \/ \E i \in DOMAIN ast.branches : HasNodeAst(what, ast.branches[i])
         [] ast.kind = "Return" -> HasNodeAtom(what, ast.expression)
         [] ast.kind = "Assignment" ->
                HasNodeAtom(what, ast.lhs) \/ HasNodeAtom(what, ast.rhs)
         [] ast.kind = "MemberAccess" -> HasNodeAtom(what, ast.lhs)
         [] ast.kind = "Tuple" ->
                \E i \in DOMAIN ast.fields : HasNodeAtom(what, ast.fields[i])
         [] ast.kind = "Builtin" ->
                \E i \in DOMAIN ast.operands : HasNodeAtom(what, ast.operands[i])
         [] ast.kind = "Handle" -> HasNodeAst(what, ast.expression)

HasNodeAtom(what, atom) ==
    \/ AtomIs(what, atom)
    \/ /\ atom.kind = "Lambda"
       /\ HasNodeAst(what, atom.body)

HasNodeTree(what, tree) ==
    CASE tree.kind = "Leaf" -> FALSE
      [] tree.kind = "Switch" ->
            \/ HasNodeAtom(what, tree.int_to_switch_on)
            \/ \E i \in DOMAIN tree.cases : HasNodeTree(what, tree.cases[i])
            \/ HasNodeTree(what, tree.else_case)

HasReducibleCall(ast) == HasNodeAst("reducible", ast)

\* an Effect atom or a Handle expression occurs in ast
HasEffectOrHandle(ast) == HasNodeAst("forbidden", ast)

HasMatch(ast) == HasNodeAst("match", ast)

HasCall(ast) == HasNodeAst("call", ast)

----------------------------------------------------------------------------
(* C1 *)

\* C1: when evaluate_static_calls has returned, the output has the function
\* identities of the input and no function body holds, at any depth, a
\* FunctionCall whose function-position atom is a Lambda with the lambda's or
\* the call site's compile_time flag set.
C1_NoReducibleCallRemains ==
    pc = "returned" =>
        /\ DOMAIN output = DOMAIN functions
        /\ \A id \in DOMAIN output : ~HasReducibleCall(output[id])

\* a program with a reducible call inside a lambda body has been evaluated
\* and the pass has returned
C1_Witness ==
    /\ pc = "returned"
    /\ \E id \in DOMAIN functions :
         /\ functions[id].kind = "Atom"
         /\ HasReducibleCall(functions[id])
         /\ output[id] # functions[id]

----------------------------------------------------------------------------
(* C6 *)

\* C6: a program with an Effect atom or a Handle expression anywhere in a
\* function body never yields a result program: the pass ends in a fatal
\* abort.  Where nothing else of the program can abort first (no Match, no
\* call), the abort is the unreachable!() of Effect or of Handle.
C6_EffectIsFatal ==
    (\E id \in DOMAIN functions : HasEffectOrHandle(functions[id])) =>
        /\ pc \in {"ready", "aborted"}
        /\ output = NoOutput
        /\ (/\ pc = "aborted"
            /\ \A id \in DOMAIN functions :
                 ~HasMatch(functions[id]) /\ ~HasCall(functions[id]))
           => err \in {"unreachable_effect", "unreachable_handle"}

\* the pass aborted on a program whose Effect atom is a call argument, and
\* on one whose Effect atom is inside a lambda body
C6_Witness ==
    /\ pc = "aborted"
    /\ err = "unreachable_effect"
    /\ \E id \in DOMAIN functions :
         /\ functions[id].kind = "FunctionCall"
         /\ functions[id].function.kind = "Lambda"
         /\ ~HasEffectOrHandle(AtomAst(functions[id].function))
         /\ \E i \in DOMAIN functions[id].args : functions[id].args[i] = Effect

----------------------------------------------------------------------------
(* C7 *)

\* C7 (as claimed): a program free of compile-time-reducible calls (and of
\* the forbidden Effect and Handle forms) is returned equal to its input,
\* over every node form, Match included.
C7_Idempotent ==
    (/\ pc # "ready"
     /\ \A id \in DOMAIN functions :
          ~HasReducibleCall(functions[id]) /\ ~HasEffectOrHandle(functions[id]))
    => (pc = "returned" /\ output = functions)

----------------------------------------------------------------------------
(* C8 *)

\* g = a compile-time lambda of y whose body is AddInt(y, 1)
ScenarioG ==
    Lambda(<<2>>, Builtin("AddInt", <<Variable(2), Literal(1)>>, NoType), TRUE)

\* f(x) = g(x)
ScenarioF ==
    AtomAst(Lambda(<<1>>, FunctionCall(ScenarioG, <<Variable(1)>>, FALSE), FALSE))

\* C8: the driver turns f(x) = g(x), g the compile-time lambda of y with body
\* AddInt(y, 1), into f(x) = AddInt(x, 1), with no FunctionCall left.
C8_Scenario ==
    (pc # "ready" /\ functions = (1 :> ScenarioF)) =>
        /\ pc = "returned"
        /\ output =
             (1 :> AtomAst(Lambda(<<1>>,
                      Builtin("AddInt", <<Variable(1), Literal(1)>>, NoType),
                      FALSE)))
        /\ ~HasCall(output[1])

C8_Witness == pc = "returned" /\ functions = (1 :> ScenarioF)

----------------------------------------------------------------------------
(* Properties of one evaluation under given substitutions (SpecEvaluate) *)

\* the node evaluated and the node returned
Node == functions[1]

Out == output[1]

\* what the substitutions say of variable id
Lookup(subs, id) == IF id \in DOMAIN subs THEN subs[id] ELSE Variable(id)

\* what a leaf atom is expected to reduce to
Reduced(subs, atom) ==
    IF atom.kind = "Variable" THEN Lookup(subs, atom.definition_id) ELSE atom

Range(seq) == {seq[i] : i \in DOMAIN seq}

Without(subs, ids) == [k \in DOMAIN subs \ ids |-> subs[k]]

IsVar(ast) == ast.kind = "Atom" /\ ast.atom.kind = "Variable"

\* the reduced callee and arguments of the call Node
Callee == EvaluateAtom(Node.function, substitutions, Fuel)

ReducedArgs == EvaluateAtoms(Node.args, substitutions, Fuel)

CalleeReached == Node.kind = "FunctionCall" /\ ~IsAbort(Callee) /\ ~IsAbort(ReducedArgs)

\* the call is returned as a call, with its function atom and its argument
\* atoms reduced
Preserved ==
    /\ pc = "returned"
    /\ Out.kind = "FunctionCall"
    /\ Out.compile_time = Node.compile_time
    /\ Len(Out.args) = Len(Node.args)
    /\ Out.function = Callee
    /\ Out.args = ReducedArgs.items

----------------------------------------------------------------------------
(* C3 *)

\* C3: a lambda evaluated under substitutions that bind one of its parameters
\* p keeps every Variable p of its body (its result is the one it has under
\* the substitutions without its parameters), while a Variable p beside the
\* lambda, before or after it, is replaced by the binding.
C3_Shadowing ==
    /\ (pc = "returned" /\ Node.kind = "Atom" /\ Node.atom.kind = "Lambda") =>
          /\ Out.atom.args = Node.atom.args
          /\ Out.atom.compile_time = Node.atom.compile_time
          /\ Out = EvaluateAst(Node, Without(substitutions, Range(Node.atom.args)), Fuel)
          /\ IsVar(Node.atom.body) /\ Node.atom.body.atom.definition_id \in Range(Node.atom.args)
                => Out.atom.body = Node.atom.body
    /\ (/\ pc = "returned" /\ Node.kind = "Tuple" /\ Len(Node.fields) = 3
        /\ Node.fields[2].kind = "Lambda") =>
          LET l == Node.fields[2]
              j == l.body.atom.definition_id
          IN  /\ Out.fields[1] = Reduced(substitutions, Node.fields[1])
              /\ Out.fields[3] = Reduced(substitutions, Node.fields[3])
              /\ Out.fields[2] =
                    Lambda(l.args,
                           AtomAst(IF j \in Range(l.args) THEN Variable(j)
                                   ELSE Lookup(substitutions, j)),
                           l.compile_time)

\* the tuple (p, \p. p, p) has been evaluated under substitutions binding p
C3_Witness ==
    /\ pc = "returned"
    /\ \E p \in DOMAIN substitutions :
         /\ Node = Tuple(<<Variable(p), Lambda(<<p>>, AtomAst(Variable(p)), FALSE),
                           Variable(p)>>)
         /\ Out = Tuple(<<substitutions[p], Lambda(<<p>>, AtomAst(Variable(p)), FALSE),
                          substitutions[p]>>)
         /\ substitutions[p] # Variable(p)

----------------------------------------------------------------------------
(* C4 *)

\* C4 (as claimed): a call whose reduced callee is not a Lambda with its
\* compile_time flag set is returned as a call node, whatever the call
\* site's flag.
C4_PreservationAsClaimed ==
    (/\ pc # "ready"
     /\ CalleeReached
     /\ ~(Callee.kind = "Lambda" /\ Callee.compile_time))
    => Preserved

\* C4 (amended): a call whose reduced callee is not a Lambda, or is a Lambda
\* whose compile_time flag is not set at a call site whose compile_time flag
\* is not set either, is returned as a FunctionCall with the same call-site
\* flag and the same number of arguments, its function atom and argument
\* atoms reduced; it is not inlined.
C4_Preservation ==
    (/\ pc # "ready"
     /\ CalleeReached
     /\ ~(Callee.kind = "Lambda" /\ (Callee.compile_time \/ Node.compile_time)))
    => Preserved

\* a call of a variable bound to a lambda that is not compile-time, at a call
\* site that is not compile-time, has been returned as a call of that lambda
C4_Witness ==
    /\ pc = "returned"
    /\ Node.kind = "FunctionCall"
    /\ Node.function.kind = "Variable"
    /\ Len(Node.args) = 1
    /\ Out.kind = "FunctionCall"
    /\ Out.function.kind = "Lambda"
    /\ Out.args # Node.args

----------------------------------------------------------------------------
(* C5 *)

\* C5: a call whose reduced callee is a Lambda, with the lambda's or the call
\* site's compile_time flag set, and whose argument count differs from the
\* lambda's parameter count, ends in the assertion's abort and returns
\* nothing.
C5_ArityAssertion ==
    (/\ pc # "ready"
     /\ CalleeReached
     /\ Callee.kind = "Lambda"
     /\ (Callee.compile_time \/ Node.compile_time)
     /\ Len(Callee.args) # Len(Node.args))
    => (pc = "aborted" /\ err = "assert_eq_arity" /\ output = NoOutput)

\* calls with too few and with too many arguments have aborted, the callee
\* coming from the substitutions
C5_Witness ==
    /\ pc = "aborted"
    /\ err = "assert_eq_arity"
    /\ Node.kind = "FunctionCall"
    /\ Node.function.kind = "Variable"
    /\ Node.function.definition_id \in DOMAIN substitutions
    /\ Len(Node.args) = 2
    /\ Len(substitutions[Node.function.definition_id].args) = 1

----------------------------------------------------------------------------
(* C9 *)

\* C9: for every builtin kind, evaluating a Builtin node whose operands can
\* be reduced returns a Builtin node of the same kind, with the same type
\* descriptor and as many operands in the same order, each the reduction of
\* the input's operand under the node's substitutions; nothing else can
\* stop it (the builtin is not executed).
C9_BuiltinRecursion ==
    (pc # "ready" /\ Node.kind = "Builtin") =>
        IF \E i \in DOMAIN Node.operands : Node.operands[i].kind = "Effect"
        THEN pc = "aborted" /\ err = "unreachable_effect"
        ELSE /\ pc = "returned"
             /\ Out.kind = "Builtin"
             /\ Out.op = Node.op
             /\ Out.typ = Node.typ
             /\ Len(Out.operands) = Len(Node.operands)
             /\ \A i \in DOMAIN Node.operands :
                  Out.operands[i] = Reduced(substitutions, Node.operands[i])

\* a builtin with a type descriptor and two operands has been evaluated, its
\* second operand replaced by the substitutions and its first kept
C9_Witness ==
    /\ pc = "returned"
    /\ Node.kind = "Builtin"
    /\ Node.op = "Offset"
    /\ Node.typ = "F64"
    /\ Node.operands[1] = Literal(1)
    /\ Node.operands[2].kind = "Variable"
    /\ Out.operands[2].kind = "Extern"

----------------------------------------------------------------------------
(* C10 *)

\* substitutions whose values no second evaluation changes
Settled(subs) ==
    \A k \in DOMAIN subs :
        \/ subs[k].kind \in {"Literal", "Extern"}
        \/ subs[k].kind = "Variable" /\ subs[k].definition_id \notin DOMAIN subs

\* the call Node is returned as a call (its reduced callee does not inline)
NotInlined ==
    LET f == Reduced(substitutions, Node.function)
    IN  ~(f.kind = "Lambda" /\ (f.compile_time \/ Node.compile_time))

\* C10: the bindings an inlined call adds and the removals a lambda makes do
\* not reach what is evaluated beside them: a Variable that is a direct child
\* of a Let, If, Tuple, Assignment, Builtin or call is replaced by exactly
\* what the parent's substitutions say of it, whatever was inlined or pruned
\* in its siblings; and the arguments of an inlined call are reduced under
\* the caller's substitutions, not under the bindings of the call's own
\* parameters.
C10_Isolation ==
    pc = "returned" =>
        /\ Node.kind = "Let" =>
              /\ IsVar(Node.expr) => Out.expr = AtomAst(Reduced(substitutions, Node.expr.atom))
              /\ IsVar(Node.body) => Out.body = AtomAst(Reduced(substitutions, Node.body.atom))
        /\ Node.kind = "If" =>
              /\ Out.condition = Reduced(substitutions, Node.condition)
              /\ IsVar(Node.then) => Out.then = AtomAst(Reduced(substitutions, Node.then.atom))
              /\ IsVar(Node.otherwise) =>
                    Out.otherwise = AtomAst(Reduced(substitutions, Node.otherwise.atom))
        /\ Node.kind = "Tuple" =>
              \A i \in DOMAIN Node.fields :
                  Node.fields[i].kind = "Variable" =>
                      Out.fields[i] = Reduced(substitutions, Node.fields[i])
        /\ Node.kind = "Assignment" =>
              /\ Out.lhs = Reduced(substitutions, Node.lhs)
              /\ Out.rhs = Reduced(substitutions, Node.rhs)
        /\ Node.kind = "Builtin" =>
              \A i \in DOMAIN Node.operands :
                  Out.operands[i] = Reduced(substitutions, Node.operands[i])
        /\ (Node.kind = "FunctionCall" /\ NotInlined) =>
              \A i \in DOMAIN Node.args :
                  Node.args[i].kind = "Variable" =>
                      Out.args[i] = Reduced(substitutions, Node.args[i])
        /\ (/\ Node.kind = "FunctionCall"
            /\ Node.function.kind = "Lambda"
            /\ Node.function.args = <<1, 2>>
            /\ (Node.function.compile_time \/ Node.compile_time)
            /\ Node.function.body.kind = "Tuple"
            /\ \A i \in DOMAIN Node.function.body.fields :
                   Node.function.body.fields[i] \in {Variable(1), Variable(2)}
            /\ Len(Node.args) = 2
            /\ Settled(substitutions)) =>
              LET arg(k) == Reduced(substitutions, Node.args[k])
              IN  Out = Tuple([i \in DOMAIN Node.function.body.fields |->
                                 arg(Node.function.body.fields[i].definition_id)])

\* a Let (of another variable) whose expr inlined a call binding p and whose
\* body is the variable p, which the Let's substitutions bind to something
\* else
C10_Witness ==
    /\ pc = "returned"
    /\ Node.kind = "Let"
    /\ IsVar(Node.body)
    /\ Node.variable # Node.body.atom.definition_id
    /\ Node.expr.kind = "FunctionCall"
    /\ Node.expr.function.kind = "Lambda"
    /\ Out.expr.kind = "Atom"
    /\ IsVar(Node.body)
    /\ Node.expr.function.args = <<Node.body.atom.definition_id>>
    /\ Node.body.atom.definition_id \in DOMAIN substitutions
    /\ Out.body = AtomAst(substitutions[Node.body.atom.definition_id])
    /\ Out.body.atom # Node.expr.args[1]
    /\ Out.body # Node.body
    /\ Out.expr.atom = Node.expr.args[1]

----------------------------------------------------------------------------
(* C2 *)

RECURSIVE FreeVarsAst(_)
RECURSIVE FreeVarsAtom(_)
RECURSIVE SubstAst(_, _, _)
RECURSIVE SubstAtom(_, _, _)
RECURSIVE BindersAst(_)
RECURSIVE BindersAtom(_)

FreeVarsAtoms(seq) == UNION {FreeVarsAtom(seq[i]) : i \in DOMAIN seq}

BindersAtoms(seq) == UNION {BindersAtom(seq[i]) : i \in DOMAIN seq}

\* the variables free in ast: a lambda binds its parameters in its body, a
\* Let binds its variable in its body
FreeVarsAst(ast) ==
    CASE ast.kind = "Atom" -> FreeVarsAtom(ast.atom)
      [] ast.kind = "FunctionCall" ->
            FreeVarsAtom(ast.function) \cup FreeVarsAtoms(ast.args)
      [] ast.kind = "Let" ->
            FreeVarsAst(ast.expr) \cup (FreeVarsAst(ast.body) \ {ast.variable})
      [] ast.kind = "If" ->
            FreeVarsAtom(ast.condition) \cup FreeVarsAst(ast.then)
                \cup FreeVarsAst(ast.otherwise)
      [] ast.kind = "Return" -> FreeVarsAtom(ast.expression)
      [] ast.kind = "Assignment" -> FreeVarsAtom(ast.lhs) \cup FreeVarsAtom(ast.rhs)
      [] ast.kind = "MemberAccess" -> FreeVarsAtom(ast.lhs)
      [] ast.kind = "Tuple" -> FreeVarsAtoms(ast.fields)
      [] ast.kind = "Builtin" -> FreeVarsAtoms(ast.operands)

FreeVarsAtom(atom) ==
    CASE atom.kind = "Variable" -> {atom.definition_id}
      [] atom.kind = "Lambda" -> FreeVarsAst(atom.body) \ Range(atom.args)
      [] OTHER -> {}

\* the ids bound somewhere in ast
BindersAst(ast) ==
    CASE ast.kind = "Atom" -> BindersAtom(ast.atom)
      [] ast.kind = "FunctionCall" ->
            BindersAtom(ast.function) \cup BindersAtoms(ast.args)
      [] ast.kind = "Let" ->
            {ast.variable} \cup BindersAst(ast.expr) \cup BindersAst(ast.body)
      [] ast.kind = "If" ->
            BindersAtom(ast.condition) \cup BindersAst(ast.then)
                \cup BindersAst(ast.otherwise)
      [] ast.kind = "Return" -> BindersAtom(ast.expression)
      [] ast.kind = "Assignment" -> BindersAtom(ast.lhs) \cup BindersAtom(ast.rhs)
      [] ast.kind = "MemberAccess" -> BindersAtom(ast.lhs)
      [] ast.kind = "Tuple" -> BindersAtoms(ast.fields)
      [] ast.kind = "Builtin" -> BindersAtoms(ast.operands)

BindersAtom(atom) ==
    CASE atom.kind = "Lambda" -> Range(atom.args) \cup BindersAst(atom.body)
      [] OTHER -> {}

\* ast with every free occurrence of p replaced by a (no binder of ast binds
\* a free variable of a, so nothing needs renaming)
SubstAst(ast, p, a) ==
    CASE ast.kind = "Atom" -> AtomAst(SubstAtom(ast.atom, p, a))
      [] ast.kind = "FunctionCall" ->
            FunctionCall(SubstAtom(ast.function, p, a),
                         [i \in DOMAIN ast.args |-> SubstAtom(ast.args[i], p, a)],
                         ast.compile_time)
      [] ast.kind = "Let" ->
            Let(ast.variable, SubstAst(ast.expr, p, a),
                IF ast.variable = p THEN ast.body ELSE SubstAst(ast.body, p, a))
      [] ast.kind = "If" ->
            If(SubstAtom(ast.condition, p, a), SubstAst(ast.then, p, a),
               SubstAst(ast.otherwise, p, a))
      [] ast.kind = "Return" -> Return(SubstAtom(ast.expression, p, a))
      [] ast.kind = "Assignment" ->
            Assignment(SubstAtom(ast.lhs, p, a), SubstAtom(ast.rhs, p, a))
      [] ast.kind = "MemberAccess" ->
            MemberAccess(SubstAtom(ast.lhs, p, a), ast.member_index)
      [] ast.kind = "Tuple" ->
            Tuple([i \in DOMAIN ast.fields |-> SubstAtom(ast.fields[i], p, a)])
      [] ast.kind = "Builtin" ->
            Builtin(ast.op,
                    [i \in DOMAIN ast.operands |-> SubstAtom(ast.operands[i], p, a)],
                    ast.typ)

SubstAtom(atom, p, a) ==
    CASE atom.kind = "Variable" -> IF atom.definition_id = p THEN a ELSE atom
      [] atom.kind = "Lambda" ->
            IF p \in Range(atom.args) THEN atom
            ELSE Lambda(atom.args, SubstAst(atom.body, p, a), atom.compile_time)
      [] OTHER -> atom

\* the program is one call (\p. B)(A) that inlines, A a leaf, B without
\* reducible calls and without the forms that abort
IsSubstitutionCase ==
    /\ DOMAIN functions = {1}
    /\ Node.kind = "FunctionCall"
    /\ Node.function.kind = "Lambda"
    /\ (Node.function.compile_time \/ Node.compile_time)
    /\ Len(Node.function.args) = 1
    /\ Len(Node.args) = 1
    /\ Node.args[1].kind \in {"Literal", "Extern", "Variable"}
    /\ ~HasReducibleCall(Node.function.body)
    /\ ~HasEffectOrHandle(Node.function.body)
    /\ ~HasMatch(Node.function.body)

\* C2 (as claimed): evaluating (\p. B)(A) yields B with every free occurrence
\* of p replaced by A: occurrences of p bound inside B (by a nested lambda's
\* parameter or by a Let of the same id) are kept, no other free variable is
\* altered, and the free variables of A stay free.
C2_SubstitutionCorrect ==
    (pc # "ready" /\ IsSubstitutionCase) =>
        LET p == Node.function.args[1]
            B == Node.function.body
            A == Node.args[1]
        IN  /\ pc = "returned"
            /\ FreeVarsAst(Out) =
                 (FreeVarsAst(B) \ {p})
                    \cup (IF p \in FreeVarsAst(B) THEN FreeVarsAtom(A) ELSE {})
            /\ (FreeVarsAtom(A) \cap BindersAst(B) = {}) => Out = SubstAst(B, p, A)

====
